---- MODULE Spec2Model ----
(***************************************************************************)
(* BLAKE2Xs extendable-output function (package blake2xs, blake2xs.go).    *)
(*                                                                         *)
(* The hash primitive blake2s is a collaborator: a digest is modelled as   *)
(* the pair (configuration, absorbed input) it is computed from, and byte  *)
(* j of a digest as [h |-> that pair, i |-> j].  Two bytes are equal in    *)
(* the model exactly when they are the same byte of the same hash call.    *)
(*                                                                         *)
(* uint64 values are four 16-bit limbs <<w3, w2, w1, w0>> (most            *)
(* significant first), added modulo 2^64.                                  *)
(*                                                                         *)
(* A byte sequence handed to the caller is kept run-length encoded: a      *)
(* segment [h, lo, n] stands for bytes lo .. lo+n-1 of digest h.  The      *)
(* encoding is canonical (adjacent segments are merged when contiguous),   *)
(* so two encodings are equal exactly when the byte sequences are.         *)
(***************************************************************************)
EXTENDS Integers, Sequences, FiniteSets, TLC

VARIABLES
    trees,      \* the caller's blake2s.Tree objects (Config.Tree points at one)
    engines,    \* the xof values constructed so far, in construction order
    ret,        \* what the last completed call returned
    nnew,       \* number of NewXOF calls made so far
    ncalls,     \* number of Write/Read calls that returned so far
    th,         \* per thread: the call it is in, its position and its locals
    mu,         \* the caller's mutex: the thread holding it, or 0
    serialized, \* whether the callers take the mutex around every call
    reject      \* the blocks whose hash the primitive refuses to construct

vars == <<trees, engines, ret, nnew, ncalls, th, mu, serialized, reject>>

\* What no call on a single thread changes: the threads of the concurrent
\* specification, and the primitive's refusals.
tvars == <<th, mu, serialized, reject>>

----------------------------------------------------------------------------
(* Program constants *)

UnknownSize == 65535

Size == 32

KeySize == 32

SaltSize == 8

PersonSize == 8

Limb == 65536

Nil == "nil"

----------------------------------------------------------------------------
(* Bounds of the model *)

\* Write/Read calls on the single engine of Spec.
MaxCalls == 3

\* NewXOF calls in SpecMulti.
MaxNew == 2

\* Write/Read calls in SpecMulti.
MaxMultiCalls == 2

\* Write/Read calls begun by the two threads of SpecConc.
MaxConcCalls == 3

----------------------------------------------------------------------------
(* uint64 arithmetic on limbs *)

U64Zero == <<0, 0, 0, 0>>

U64One == <<0, 0, 0, 1>>

\* uint64(v) for 0 <= v < 2^31
U64FromInt(v) == <<0, 0, v \div Limb, v % Limb>>

\* a << 32
U64Shl32(a) == <<a[3], a[4], 0, 0>>

\* a + b modulo 2^64
U64Add(a, b) ==
    LET s0 == a[4] + b[4]
        s1 == a[3] + b[3] + (s0 \div Limb)
        s2 == a[2] + b[2] + (s1 \div Limb)
        s3 == a[1] + b[1] + (s2 \div Limb)
    IN  <<s3 % Limb, s2 % Limb, s1 % Limb, s0 % Limb>>

----------------------------------------------------------------------------
(* The collaborator blake2s *)

\* blake2s.New(c) returns an error: the lengths and the tree parameters the
\* primitive rejects (its node offset is a 48-bit field), and, where the
\* primitive is taken to fail on block hashes, the blocks it then refuses
\* (reject is empty wherever the primitive is the real blake2s).
blake2sNewErr(c) ==
    \/ c.Size > Size
    \/ Len(c.Key) > KeySize
    \/ Len(c.Salt) > SaltSize
    \/ Len(c.Person) > PersonSize
    \/ c.Tree.InnerHashSize > Size
    \/ c.Tree.NodeOffset[1] # 0
    \/ c.Tree.Fanout = 0 /\ c.Tree.NodeOffset[4] \in reject

\* The digest size a hash built from c has (a zero Size is the full size).
DigestSize(c) == IF c.Size = 0 THEN Size ELSE c.Size

\* hash.Hash.Sum: the digest of input `in` under configuration c.
Sum(c, in) == <<c, in>>

\* A nil byte slice, and the digest no hash call produced.
NoDigest == <<>>

\* The zero value of a byte of the output buffer.
ZeroByte == [h |-> NoDigest, i |-> 0]

----------------------------------------------------------------------------
(* Run-length encoded byte sequences *)

NoSeg == [h |-> NoDigest, lo |-> 0, n |-> 0]

\* Byte b continues segment s.
Continues(s, b) == s.n > 0 /\ s.h = b.h /\ s.lo + s.n = b.i

\* Concatenation of two encoded sequences, kept canonical.
Cat(a, b) ==
    IF a = <<>> THEN b
    ELSE IF b = <<>> THEN a
    ELSE LET l == a[Len(a)]
             f == b[1]
         IN  IF l.h = f.h /\ l.lo + l.n = f.lo
             THEN SubSeq(a, 1, Len(a) - 1)
                    \o <<[l EXCEPT !.n = l.n + f.n]>>
                    \o SubSeq(b, 2, Len(b))
             ELSE a \o b

----------------------------------------------------------------------------
(* NewXOF *)

\* An outSize without the default for a zero Size.
outSizeNoDefault(c) == c.Size

\* outSize: the declared size, or UnknownSize for a zero Size.
outSize(c) == IF c.Size = 0 THEN UnknownSize ELSE c.Size

\* The tree a nil Config.Tree is replaced by.
DefaultTree ==
    [Fanout |-> 1, MaxDepth |-> 1, LeafSize |-> 0, NodeOffset |-> U64Zero,
     NodeDepth |-> 0, InnerHashSize |-> 0, IsLastNode |-> FALSE]

\* uint64(outSize) << 32
EncodedLength(c) == U64Shl32(U64FromInt(outSize(c)))

\* An rc.Tree whose node offset gets the encoded length only when the tree
\* is the default one.
rcTreeDefaultOnly(c, heap) ==
    IF c.Tree = Nil
    THEN [DefaultTree EXCEPT !.NodeOffset = U64Add(@, EncodedLength(c))]
    ELSE heap[c.Tree]

\* The object rc.Tree points at, after NodeOffset += uint64(outSize) << 32.
\* rc.Tree is c.Tree itself when the caller supplied one.
rcTree(c, heap) ==
    LET t == IF c.Tree = Nil THEN DefaultTree ELSE heap[c.Tree]
    IN  [t EXCEPT !.NodeOffset = U64Add(@, EncodedLength(c))]

\* The caller's tree objects after NewXOF(c): the addition is made through
\* the caller's pointer.
HeapAfterNewXOF(c, heap) ==
    IF c.Tree = Nil THEN heap ELSE [heap EXCEPT ![c.Tree] = rcTree(c, heap)]

\* rc, as blake2s.New reads it.
RootConfig(c, heap) ==
    [Size |-> Size, Key |-> c.Key, Salt |-> c.Salt, Person |-> c.Person,
     Tree |-> rcTree(c, heap)]

\* An output config that takes the key of the Config as well.
OutputConfigKeyed(c) ==
    [Size |-> Size, Key |-> c.Key, Salt |-> c.Salt, Person |-> c.Person,
     Tree |-> [Fanout |-> 0, MaxDepth |-> 0, LeafSize |-> Size,
               NodeOffset |-> EncodedLength(c), NodeDepth |-> 0,
               InnerHashSize |-> Size, IsLastNode |-> FALSE]]

\* An output config whose node offset starts at zero.
OutputConfigFromZero(c) ==
    [Size |-> Size, Key |-> <<>>, Salt |-> c.Salt, Person |-> c.Person,
     Tree |-> [Fanout |-> 0, MaxDepth |-> 0, LeafSize |-> Size,
               NodeOffset |-> U64Zero, NodeDepth |-> 0,
               InnerHashSize |-> Size, IsLastNode |-> FALSE]]

\* oc, the initial config for output hashes.
OutputConfig(c) ==
    [Size |-> Size, Key |-> <<>>, Salt |-> c.Salt, Person |-> c.Person,
     Tree |-> [Fanout |-> 0, MaxDepth |-> 0, LeafSize |-> Size,
               NodeOffset |-> EncodedLength(c), NodeDepth |-> 0,
               InnerHashSize |-> Size, IsLastNode |-> FALSE]]

\* The xof value NewXOF returns.  The fields after left are history: c is the
\* Config value the engine was built from (its tree dereferenced at the call),
\* tree the pointer it held, out every byte delivered so far, total the sum of
\* the counts Read returned, reads the number of Read calls that returned and
\* sums the number of times the root hash was summed.
NewEngine(c, heap) ==
    [rh    |-> [cfg |-> RootConfig(c, heap), msg |-> <<>>],
     oc    |-> OutputConfig(c),
     h0    |-> NoDigest,
     x     |-> [j \in 1 .. Size |-> ZeroByte],
     px    |-> Size,
     left  |-> outSize(c),
     c     |-> [c EXCEPT !.Tree = IF c.Tree = Nil THEN <<>> ELSE <<heap[c.Tree]>>],
     tree  |-> c.Tree,
     out   |-> <<>>,
     total |-> 0,
     reads |-> 0,
     sums  |-> 0]

NewXOF(c) ==
    /\ trees' = HeapAfterNewXOF(c, trees)
    /\ nnew' = nnew + 1
    /\ IF blake2sNewErr(RootConfig(c, trees))
       THEN /\ engines' = engines
            /\ ret' = [op |-> "NewXOF", e |-> 0, n |-> 0, nn |-> 0,
                       err |-> "blake2s: config", p |-> <<>>]
       ELSE /\ engines' = Append(engines, NewEngine(c, trees))
            /\ ret' = [op |-> "NewXOF", e |-> Len(engines) + 1, n |-> 0,
                       nn |-> 0, err |-> Nil, p |-> <<>>]
    /\ UNCHANGED <<ncalls, tvars>>

----------------------------------------------------------------------------
(* Write *)

\* A guard that takes the engine for finalized only once bytes were read.
FinalizedWhenBytesRead(x) == x.total > 0

\* x.h0 != nil
Finalized(x) == x.h0 # NoDigest

\* A root hash write that absorbs nothing.
rhWriteDropping(x, p) == x

\* x.rh.Write(p): the root hash absorbs p; hash.Hash never fails.
rhWrite(x, p) == [x EXCEPT !.rh.msg = @ \o p]

Write(e, p) ==
    /\ e \in DOMAIN engines
    /\ ncalls' = ncalls + 1
    /\ IF Finalized(engines[e])
       THEN /\ engines' = engines
            /\ ret' = [op |-> "Write", e |-> e, n |-> Len(p), nn |-> 0,
                       err |-> "blake2xs: cannot write after reading",
                       p |-> <<>>]
       ELSE /\ engines' = [engines EXCEPT ![e] = rhWrite(@, p)]
            /\ ret' = [op |-> "Write", e |-> e, n |-> Len(p), nn |-> Len(p),
                       err |-> Nil, p |-> <<>>]
    /\ UNCHANGED <<trees, nnew, tvars>>

----------------------------------------------------------------------------
(* Read *)

\* An end check that never finds the end.
AtEndNever(st, n) == FALSE

\* An end check that is skipped on the last index of p.
AtEndSkippingLast(st, n) == st.left = 0 /\ st.i + 1 # n

\* x.left == 0 && i != len(p)
AtEnd(st, n) == st.left = 0 /\ st.i # n

\* A buffer taken for empty one byte early.
BufferEmptyEarly(st) == st.px >= Size - 1

\* x.px >= blake2s.Size
BufferEmpty(st) == st.px >= Size

\* A last block that is not truncated.
LastBlockSizeFull(st) == st.oc

\* x.left < blake2s.Size: this is the last block; x.oc.Size = uint8(x.left)
LastBlockSize(st) ==
    IF st.left < Size THEN [st.oc EXCEPT !.Size = st.left % 256] ELSE st.oc

\* h.Sum(x.x[:0]): the digest overwrites the first DigestSize bytes of x.x.
\* (x.x is kept as a sequence: byte j of the buffer is buf[j + 1].)
SumInto(buf, c, in) ==
    [j \in 1 .. DigestSize(c) |-> [h |-> Sum(c, in), i |-> j - 1]]
        \o SubSeq(buf, DigestSize(c) + 1, Size)

\* A node offset that is never advanced.
NextNodeOffsetStuck(oc) == oc

\* x.oc.Tree.NodeOffset++
NextNodeOffset(oc) == [oc EXCEPT !.Tree.NodeOffset = U64Add(@, U64One)]

\* A refill that advances the node offset before the block is constructed.
RefillConsuming(st) ==
    LET oc1 == LastBlockSize(st)
    IN  IF blake2sNewErr(oc1)
        THEN [st EXCEPT !.oc = NextNodeOffset(oc1), !.done = TRUE,
                        !.err = "blake2s: config"]
        ELSE [st EXCEPT !.oc = NextNodeOffset(oc1),
                        !.x = SumInto(st.x, oc1, st.h0),
                        !.px = 0]

\* Refill buffer.
Refill(st) ==
    LET oc1 == LastBlockSize(st)
    IN  IF blake2sNewErr(oc1)
        THEN [st EXCEPT !.oc = oc1, !.done = TRUE, !.err = "blake2s: config"]
        ELSE [st EXCEPT !.oc = NextNodeOffset(oc1),
                        !.x = SumInto(st.x, oc1, st.h0),
                        !.px = 0]

\* A byte store that leaves x.left as it is.
EmitKeepingLeft(st) ==
    LET b == st.x[st.px + 1]
    IN  IF Continues(st.cur, b)
        THEN [st EXCEPT !.cur.n = @ + 1,
                        !.px = @ + 1, !.nn = @ + 1, !.i = @ + 1]
        ELSE [st EXCEPT !.p = IF st.cur.n > 0 THEN Append(@, st.cur) ELSE @,
                        !.cur = [h |-> b.h, lo |-> b.i, n |-> 1],
                        !.px = @ + 1, !.nn = @ + 1, !.i = @ + 1]

\* p[i] = x.x[x.px]; x.px++; x.left--; nn++
Emit(st) ==
    LET b == st.x[st.px + 1]
    IN  IF Continues(st.cur, b)
        THEN [st EXCEPT !.cur.n = @ + 1,
                        !.px = @ + 1, !.left = @ - 1, !.nn = @ + 1, !.i = @ + 1]
        ELSE [st EXCEPT !.p = IF st.cur.n > 0 THEN Append(@, st.cur) ELSE @,
                        !.cur = [h |-> b.h, lo |-> b.i, n |-> 1],
                        !.px = @ + 1, !.left = @ - 1, !.nn = @ + 1, !.i = @ + 1]

\* One iteration of `for i := range p`, for a buffer of length n.
Body(st, n) ==
    IF st.done THEN st
    ELSE IF AtEnd(st, n) THEN [st EXCEPT !.done = TRUE, !.err = "EOF"]
    ELSE LET r == IF BufferEmpty(st) THEN Refill(st) ELSE st
         IN  IF r.done THEN r ELSE Emit(r)

\* k iterations of the loop (split in halves: the recursion stays shallow).
RECURSIVE Iterate(_, _, _)
Iterate(st, k, n) ==
    IF k = 0 \/ st.done THEN st
    ELSE IF k = 1 THEN Body(st, n)
    ELSE Iterate(Iterate(st, k \div 2, n), k - (k \div 2), n)

\* x.h0 == nil
NotFinalized(x) == x.h0 = NoDigest

\* x.h0 = x.rh.Sum(nil)
rhSum(x) == [x EXCEPT !.h0 = Sum(x.rh.cfg, x.rh.msg), !.sums = @ + 1]

\* A finalization that sums the root hash on every Read.
FinalizeEveryRead(x) == rhSum(x)

\* if x.h0 == nil { x.h0 = x.rh.Sum(nil) }
Finalize(x) == IF NotFinalized(x) THEN rhSum(x) ELSE x

\* A loop entry that rewinds the buffer to its first byte.
LoopStartRewinding(x) ==
    [oc |-> x.oc, h0 |-> x.h0, x |-> x.x, px |-> 0, left |-> x.left,
     i |-> 0, nn |-> 0, err |-> Nil, done |-> FALSE, p |-> <<>>, cur |-> NoSeg]

\* A loop entry that discards what is left in the buffer.
LoopStartDiscarding(x) ==
    [oc |-> x.oc, h0 |-> x.h0, x |-> x.x, px |-> Size, left |-> x.left,
     i |-> 0, nn |-> 0, err |-> Nil, done |-> FALSE, p |-> <<>>, cur |-> NoSeg]

\* The loop's state on entry: the engine's fields, and the call's locals.
LoopStart(x) ==
    [oc |-> x.oc, h0 |-> x.h0, x |-> x.x, px |-> x.px, left |-> x.left,
     i |-> 0, nn |-> 0, err |-> Nil, done |-> FALSE, p |-> <<>>, cur |-> NoSeg]

\* The bytes the call stored in p.
Stored(st) == IF st.cur.n > 0 THEN Append(st.p, st.cur) ELSE st.p

\* Read on engine x with a buffer of length n: the loop's final state.
ReadLoop(x, n) == Iterate(LoopStart(Finalize(x)), n, n)

Read(e, n) ==
    /\ e \in DOMAIN engines
    /\ ncalls' = ncalls + 1
    /\ \E x0 \in {Finalize(engines[e])}, st \in {ReadLoop(engines[e], n)} :
           /\ engines' = [engines EXCEPT ![e] =
                            [x0 EXCEPT !.oc = st.oc, !.x = st.x, !.px = st.px,
                                       !.left = st.left,
                                       !.out = Cat(@, Stored(st)),
                                       !.total = @ + st.nn,
                                       !.reads = @ + 1]]
           /\ ret' = [op |-> "Read", e |-> e, n |-> n, nn |-> st.nn,
                      err |-> st.err, p |-> Stored(st)]
    /\ UNCHANGED <<trees, nnew, tvars>>

----------------------------------------------------------------------------
(* Inputs *)

TreeIds == {"t1", "t2"}

\* The tree a caller holds before the first NewXOF: a node offset of its own.
CallerTree == [DefaultTree EXCEPT !.NodeOffset = <<0, 0, 0, 5>>]

\* A byte string of the given length.
Bytes(len) == [k \in 1 .. len |-> 0]

\* Key, salt and personalization: none; all three set; a salt too long.
Plain == <<(<<>>), (<<>>), (<<>>)>>

Keyed == <<(<<1>>), (<<2>>), (<<3>>)>>

BadSalt == <<(<<>>), Bytes(SaltSize + 1), (<<>>)>>

Config(size, k, tree) ==
    [Size |-> size, Key |-> k[1], Salt |-> k[2], Person |-> k[3], Tree |-> tree]

\* Declared sizes: unknown, below one block, one block, one block and a part.
StreamSizes == {0, 1, Size, Size + 1}

\* The configurations one engine is built from: unkeyed with no tree, keyed
\* with a tree of the caller's, and one the primitive rejects.
StreamConfigs ==
    {Config(size, Plain, Nil) : size \in StreamSizes}
        \cup {Config(size, Keyed, "t1") : size \in StreamSizes}
        \cup {Config(1, BadSalt, Nil)}

\* Buffer lengths handed to Read.
ReadLens == {0, 1, Size, Size + 1, UnknownSize - Size}

\* Messages handed to Write.
Messages == {<<>>, <<1>>}

----------------------------------------------------------------------------
(* One engine: a construction, then writes and reads *)

Threads == {1, 2}

\* A thread that is in no call.
Idle ==
    [pc |-> "idle", n |-> 0, msg |-> <<>>, i |-> 0, nn |-> 0, p |-> <<>>,
     h |-> <<>>, tmp |-> 0, calls |-> 0]

InitCaller ==
    /\ trees = [id \in TreeIds |-> CallerTree]
    /\ engines = <<>>
    /\ ret = [op |-> "none", e |-> 0, n |-> 0, nn |-> 0, err |-> Nil,
              p |-> <<>>]
    /\ nnew = 0
    /\ ncalls = 0
    /\ th = [t \in Threads |-> Idle]
    /\ mu = 0

Init == InitCaller /\ serialized = TRUE /\ reject = {}

Construct ==
    /\ nnew = 0
    /\ \E c \in StreamConfigs : NewXOF(c)

DoWrite ==
    /\ ncalls < MaxCalls
    /\ \E e \in DOMAIN engines, p \in Messages : Write(e, p)

DoRead ==
    /\ ncalls < MaxCalls
    /\ \E e \in DOMAIN engines, n \in ReadLens : Read(e, n)

Next == Construct \/ DoWrite \/ DoRead

Spec == Init /\ [][Next]_vars

----------------------------------------------------------------------------
(* Several engines: constructions from the caller's configurations, in any
   order with writes and short reads *)

\* Declared sizes: unknown, one block and a byte, and UnknownSize declared as
\* such.
MultiSizes == {0, Size + 1, UnknownSize}

\* Unkeyed with no tree, and keyed with either of the caller's two trees.
MultiConfigs ==
    {Config(size, Plain, Nil) : size \in MultiSizes}
        \cup {Config(size, Keyed, t) : size \in MultiSizes, t \in TreeIds}

MultiReadLens == {1, Size + 1}

ConstructAny ==
    /\ nnew < MaxNew
    /\ \E c \in MultiConfigs : NewXOF(c)

DoWriteAny ==
    /\ ncalls < MaxMultiCalls
    /\ \E e \in DOMAIN engines : Write(e, <<1>>)

DoReadAny ==
    /\ ncalls < MaxMultiCalls
    /\ \E e \in DOMAIN engines, n \in MultiReadLens : Read(e, n)

NextMulti == ConstructAny \/ DoWriteAny \/ DoReadAny

SpecMulti == Init /\ [][NextMulti]_vars

----------------------------------------------------------------------------
(* Two threads on one engine, statement by statement.  The callers either
   hold one mutex around every call (serialized) or take no lock at all.
   Unlocked accesses are interleaved at the granularity of one load or store
   of an engine field; a racing load returns a value some store wrote. *)

ConcSizes == {1, 2}

ConcConfigs == {Config(size, Plain, Nil) : size \in ConcSizes}

ConcReadLens == {0, 1}

InitConc == InitCaller /\ serialized \in BOOLEAN /\ reject = {}

ConstructShared ==
    /\ nnew = 0
    /\ \E c \in ConcConfigs : NewXOF(c)

\* The engine the threads share.
X == engines[1]

\* An index out of range ended the process.
Crashed == \E t \in Threads : th[t].pc = "panic"

\* Thread t is about to execute statement pc.
At(t, pc) == th[t].pc = pc /\ ~Crashed

\* The number of calls begun so far.
Begun == ncalls + Cardinality({t \in Threads : th[t].pc # "idle"})

\* Thread t enters a call (taking the mutex first when the callers use one).
Call(t, pc, n, msg) ==
    /\ engines # <<>>
    /\ At(t, "idle")
    /\ Begun < MaxConcCalls
    /\ serialized => mu = 0
    /\ mu' = IF serialized THEN t ELSE mu
    /\ th' = [th EXCEPT ![t].pc = pc, ![t].n = n, ![t].msg = msg]
    /\ UNCHANGED <<trees, engines, ret, nnew, ncalls, serialized, reject>>

\* Thread t executes one statement: the engine becomes x, its locals l.
Step(t, x, l) ==
    /\ engines' = [engines EXCEPT ![1] = x]
    /\ th' = [th EXCEPT ![t] = l]
    /\ UNCHANGED <<trees, ret, nnew, ncalls, mu, serialized, reject>>

\* Thread t returns (nn, err) from op (and releases the mutex).
Return(t, op, x, nn, err) ==
    /\ engines' = [engines EXCEPT ![1] =
                     IF op = "Read"
                     THEN [x EXCEPT !.total = @ + nn, !.reads = @ + 1]
                     ELSE x]
    /\ ret' = [op |-> op, e |-> 1,
               n |-> IF op = "Read" THEN th[t].n ELSE Len(th[t].msg),
               nn |-> nn, err |-> err, p |-> th[t].p]
    /\ ncalls' = ncalls + 1
    /\ mu' = 0
    /\ th' = [th EXCEPT ![t] = [Idle EXCEPT !.calls = th[t].calls + 1]]
    /\ UNCHANGED <<trees, nnew, serialized, reject>>

BeginWrite(t) == Call(t, "wCheck", 0, <<1>>)

\* if x.h0 != nil { return 0, errors.New(...) }
WriteCheck(t) ==
    /\ At(t, "wCheck")
    /\ IF Finalized(X)
       THEN Return(t, "Write", X, 0, "blake2xs: cannot write after reading")
       ELSE Step(t, X, [th[t] EXCEPT !.pc = "wWrite"])

\* return x.rh.Write(p)
WriteRoot(t) ==
    /\ At(t, "wWrite")
    /\ Return(t, "Write", rhWrite(X, th[t].msg), Len(th[t].msg), Nil)

BeginRead(t) == \E n \in ConcReadLens : Call(t, "rCheck", n, <<>>)

\* if x.h0 == nil
ReadCheck(t) ==
    /\ At(t, "rCheck")
    /\ Step(t, X, [th[t] EXCEPT !.pc = IF NotFinalized(X) THEN "rSum"
                                                           ELSE "rLoop"])

\* x.h0 = x.rh.Sum(nil)
ReadRootSum(t) ==
    /\ At(t, "rSum")
    /\ Step(t, rhSum(X), [th[t] EXCEPT !.pc = "rLoop"])

\* for i := range p { if x.left == 0 && i != len(p) { return nn, io.EOF }
\* and, past the last index, return nn, err
ReadLoopHead(t) ==
    /\ At(t, "rLoop")
    /\ IF th[t].i >= th[t].n
       THEN Return(t, "Read", X, th[t].nn, Nil)
       ELSE IF AtEnd([left |-> X.left, i |-> th[t].i], th[t].n)
       THEN Return(t, "Read", X, th[t].nn, "EOF")
       ELSE Step(t, X, [th[t] EXCEPT !.pc = "rBuf"])

\* if x.px >= blake2s.Size
ReadBuffer(t) ==
    /\ At(t, "rBuf")
    /\ Step(t, X, [th[t] EXCEPT !.pc = IF BufferEmpty(X) THEN "rSize"
                                                          ELSE "rEmit"])

\* if x.left < blake2s.Size { x.oc.Size = uint8(x.left) }
ReadLastSize(t) ==
    /\ At(t, "rSize")
    /\ Step(t, [X EXCEPT !.oc = LastBlockSize(X)],
            [th[t] EXCEPT !.pc = "rNew"])

\* h, err := blake2s.New(&x.oc); if err != nil { return nn, err }
ReadNew(t) ==
    /\ At(t, "rNew")
    /\ IF blake2sNewErr(X.oc)
       THEN Return(t, "Read", X, th[t].nn, "blake2s: config")
       ELSE Step(t, X, [th[t] EXCEPT !.pc = "rDigest", !.h = <<X.oc>>])

\* h.Write(x.h0); h.Sum(x.x[:0])
ReadDigest(t) ==
    /\ At(t, "rDigest")
    /\ Step(t, [X EXCEPT !.x = SumInto(X.x, th[t].h[1], X.h0)],
            [th[t] EXCEPT !.pc = "rOffset"])

\* x.oc.Tree.NodeOffset++
ReadNodeOffset(t) ==
    /\ At(t, "rOffset")
    /\ Step(t, [X EXCEPT !.oc = NextNodeOffset(X.oc)],
            [th[t] EXCEPT !.pc = "rReset"])

\* x.px = 0
ReadReset(t) ==
    /\ At(t, "rReset")
    /\ Step(t, [X EXCEPT !.px = 0], [th[t] EXCEPT !.pc = "rEmit"])

\* The byte x.x[px] as a one-byte encoded sequence.
ByteAt(x) ==
    <<[h |-> x.x[x.px + 1].h, lo |-> x.x[x.px + 1].i, n |-> 1]>>

\* p[i] = x.x[x.px]: the index is checked against the array's length.
ReadEmit(t) ==
    /\ At(t, "rEmit")
    /\ IF X.px >= Size
       THEN Step(t, X, [th[t] EXCEPT !.pc = "panic"])
       ELSE Step(t, [X EXCEPT !.out = Cat(@, ByteAt(X))],
                 [th[t] EXCEPT !.pc = "rPxLoad", !.p = Cat(@, ByteAt(X))])

\* A decrement of x.left that is never stored.
leftStoreSkipped(x, v) == x

\* x.left-- (the store)
leftStore(x, v) == [x EXCEPT !.left = v - 1]

\* x.px++ (the load)
ReadPxLoad(t) ==
    /\ At(t, "rPxLoad")
    /\ Step(t, X, [th[t] EXCEPT !.pc = "rPxStore", !.tmp = X.px])

\* x.px++ (the store)
ReadPxStore(t) ==
    /\ At(t, "rPxStore")
    /\ Step(t, [X EXCEPT !.px = th[t].tmp + 1],
            [th[t] EXCEPT !.pc = "rLeftLoad"])

\* x.left-- (the load)
ReadLeftLoad(t) ==
    /\ At(t, "rLeftLoad")
    /\ Step(t, X, [th[t] EXCEPT !.pc = "rLeftStore", !.tmp = X.left])

\* x.left-- (the store); nn++; and the loop's i++
ReadLeftStore(t) ==
    /\ At(t, "rLeftStore")
    /\ Step(t, leftStore(X, th[t].tmp),
            [th[t] EXCEPT !.pc = "rLoop", !.nn = @ + 1, !.i = @ + 1])

NextConc ==
    \/ ConstructShared
    \/ \E t \in Threads :
          \/ BeginWrite(t)
          \/ WriteCheck(t)
          \/ WriteRoot(t)
          \/ BeginRead(t)
          \/ ReadCheck(t)
          \/ ReadRootSum(t)
          \/ ReadLoopHead(t)
          \/ ReadBuffer(t)
          \/ ReadLastSize(t)
          \/ ReadNew(t)
          \/ ReadDigest(t)
          \/ ReadNodeOffset(t)
          \/ ReadReset(t)
          \/ ReadEmit(t)
          \/ ReadPxLoad(t)
          \/ ReadPxStore(t)
          \/ ReadLeftLoad(t)
          \/ ReadLeftStore(t)

SpecConc == InitConc /\ [][NextConc]_vars

----------------------------------------------------------------------------
(* One engine on a primitive that may refuse to construct a block hash.  The
   real blake2s accepts every block configuration once it has accepted the
   root's; the engine's handling of the error blake2s.New returns in Read is
   exercised here with a collaborator that refuses one block. *)

MaxFaultCalls == 3

\* The primitive refuses nothing, the first block or the second block.
Faults == {{}, {0}, {1}}

\* Two blocks, unknown size with a caller's tree, and a salt the primitive
\* rejects at construction.
FaultConfigs ==
    {Config(Size + 1, Plain, Nil), Config(0, Keyed, "t1"),
     Config(1, BadSalt, Nil)}

FaultReadLens == {1, Size, Size + 1}

InitFault == InitCaller /\ serialized = TRUE /\ reject \in Faults

ConstructFault ==
    /\ nnew = 0
    /\ \E c \in FaultConfigs : NewXOF(c)

DoWriteFault ==
    /\ ncalls < MaxFaultCalls
    /\ \E e \in DOMAIN engines : Write(e, <<1>>)

DoReadFault ==
    /\ ncalls < MaxFaultCalls
    /\ \E e \in DOMAIN engines, n \in FaultReadLens : Read(e, n)

NextFault == ConstructFault \/ DoWriteFault \/ DoReadFault

SpecFault == InitFault /\ [][NextFault]_vars

----------------------------------------------------------------------------
(* Properties *)

Min(a, b) == IF a < b THEN a ELSE b

\* The effective output length of a declared size.
EffectiveLength(size) == IF size = 0 THEN 65535 ELSE size

\* This step is a Write call on engine e returning.
WriteStep(e) ==
    e \in DOMAIN engines /\ ncalls' = ncalls + 1
        /\ ret'.op = "Write" /\ ret'.e = e

\* This step is a Read call on engine e returning.
ReadStep(e) ==
    e \in DOMAIN engines /\ ncalls' = ncalls + 1
        /\ ret'.op = "Read" /\ ret'.e = e

StateError == "blake2xs: cannot write after reading"

\* C1: on an engine on which a Read call has returned, every Write call
\* fails with the state error, reports 0 bytes written and leaves the engine
\* (root hash input, root digest, buffer, position, remaining count, block
\* node offset) as it was.
C1_WriteAfterReadRejected ==
    [][\A e \in DOMAIN engines :
          (WriteStep(e) /\ engines[e].reads > 0)
              => /\ ret'.err = StateError
                 /\ ret'.nn = 0
                 /\ engines'[e] = engines[e]]_vars

\* A Write of a non-empty slice was rejected on an engine that was read.
C1_Witness ==
    /\ ret.op = "Write" /\ ret.err = StateError /\ ret.n > 0
    /\ engines[ret.e].reads > 0

\* C2: a Read with a buffer of length n made when r bytes remain, and no
\* block construction failing, returns min(n, r); it reports end-of-stream
\* exactly when r < n, and no error when r >= n.
C2_ReadReturnValue ==
    [][\A e \in DOMAIN engines :
          (ReadStep(e) /\ ret'.err \in {Nil, "EOF"})
              => LET r == engines[e].left
                     n == ret'.n
                 IN  /\ ret'.nn = Min(n, r)
                     /\ (ret'.err = "EOF") <=> (r < n)
                     /\ (r >= n) => (ret'.err = Nil)]_vars

\* A Read filled its buffer with exactly the bytes that remained.
C2_Witness ==
    /\ ret.op = "Read" /\ ret.n > 0 /\ ret.nn = ret.n /\ ret.err = Nil
    /\ engines[ret.e].left = 0

\* C3 as claimed: every Read made before the counts sum to the effective
\* length L ends without end-of-stream, every Read made once they sum to L
\* returns zero bytes with end-of-stream, and the counts never sum to more
\* than L.
C3_AsClaimed ==
    [][\A e \in DOMAIN engines :
          ReadStep(e)
              => LET L == EffectiveLength(engines[e].c.Size)
                 IN  /\ engines'[e].total <= L
                     /\ (engines[e].total < L) => (ret'.err # "EOF")
                     /\ (engines[e].total = L)
                            => (ret'.nn = 0 /\ ret'.err = "EOF")]_vars

\* C3 amended: every Read that asks for no more than is left of the
\* effective length L fills its buffer without end-of-stream; once the counts
\* sum to L, a Read with a non-empty buffer returns zero bytes with
\* end-of-stream and a Read with an empty buffer returns zero bytes and no
\* error; the counts never sum to more than L.
C3_DeclaredLengthTruncation ==
    [][\A e \in DOMAIN engines :
          ReadStep(e)
              => LET L == EffectiveLength(engines[e].c.Size)
                     d == engines[e].total
                     n == ret'.n
                 IN  /\ engines'[e].total <= L
                     /\ (d + n <= L) => (ret'.nn = n /\ ret'.err = Nil)
                     /\ (d = L /\ n > 0) => (ret'.nn = 0 /\ ret'.err = "EOF")
                     /\ (d = L /\ n = 0) => (ret'.nn = 0 /\ ret'.err = Nil)
       ]_vars

\* An engine of unknown size delivered all 65535 bytes in reads that asked
\* for exactly that many, and the next Read got end-of-stream.
C3_Witness ==
    /\ ret.op = "Read" /\ ret.n > 0 /\ ret.nn = 0 /\ ret.err = "EOF"
    /\ engines[ret.e].c.Size = 0
    /\ engines[ret.e].total = 65535
    /\ engines[ret.e].reads = 3

\* Block b of the output of engine x: its configuration.
RefBlockConfig(x, b) ==
    LET L == EffectiveLength(x.c.Size)
    IN  [Size |-> Min(32, L - 32 * b), Key |-> <<>>, Salt |-> x.c.Salt,
         Person |-> x.c.Person,
         Tree |-> [Fanout |-> 0, MaxDepth |-> 0, LeafSize |-> 32,
                   NodeOffset |-> <<0, L, b \div 65536, b % 65536>>,
                   NodeDepth |-> 0, InnerHashSize |-> 32,
                   IsLastNode |-> FALSE]]

\* The first d bytes of the output of engine x: byte k is byte k mod 32 of
\* block k div 32.
RefStream(x, d) ==
    [b \in 1 .. ((d + 31) \div 32) |->
        [h |-> <<RefBlockConfig(x, b - 1), x.h0>>, lo |-> 0,
         n |-> Min(32, d - 32 * (b - 1))]]

\* C4: whatever the buffer lengths of the Read calls made so far, the
\* bytes delivered are the first bytes of one fixed sequence: the k-th
\* delivered byte is byte k mod 32 of block k div 32.
C4_ChunkingInvariance ==
    \A e \in DOMAIN engines :
        engines[e].out = RefStream(engines[e], engines[e].total)

\* Bytes of more than one block were delivered by several Read calls, the
\* last of which started in the middle of a block.
C4_Witness ==
    /\ ret.op = "Read" /\ ret.nn > 0
    /\ engines[ret.e].reads >= 2
    /\ engines[ret.e].total > 32
    /\ (engines[ret.e].total - ret.nn) % 32 # 0

\* C10: the root digest is absent until the first Read call and present
\* after it; the root hash is summed once, by that call, over everything
\* written; afterwards the digest never changes and the engine never
\* accepts input again.
C10_OneShotFinalization ==
    [][/\ \A e \in DOMAIN engines' :
             /\ (engines'[e].reads = 0) <=> (engines'[e].h0 = NoDigest)
             /\ engines'[e].sums = (IF engines'[e].reads = 0 THEN 0 ELSE 1)
       /\ \A e \in DOMAIN engines :
             /\ (engines[e].h0 # NoDigest)
                   => /\ engines'[e].h0 = engines[e].h0
                      /\ engines'[e].rh = engines[e].rh
             /\ (ReadStep(e) /\ engines[e].reads = 0)
                   => engines'[e].h0 =
                          Sum(engines[e].rh.cfg, engines[e].rh.msg)]_vars

\* A message was written and then read twice: the digest was summed once.
C10_Witness ==
    /\ \E e \in DOMAIN engines :
          /\ engines[e].reads >= 2
          /\ engines[e].rh.msg # <<>>
          /\ engines[e].h0 # NoDigest
          /\ engines[e].sums = 1

\* Encoded byte sequence a is a prefix of b.
IsPrefix(a, b) ==
    \/ a = <<>>
    \/ /\ Len(a) <= Len(b)
       /\ SubSeq(a, 1, Len(a) - 1) = SubSeq(b, 1, Len(a) - 1)
       /\ a[Len(a)].h = b[Len(a)].h
       /\ a[Len(a)].lo = b[Len(a)].lo
       /\ a[Len(a)].n <= b[Len(a)].n

\* Engines x1 and x2 were built with the same key, salt, personalization
\* and tree parameters.
SameButSize(x1, x2) ==
    /\ x1.c.Key = x2.c.Key
    /\ x1.c.Salt = x2.c.Salt
    /\ x1.c.Person = x2.c.Person
    /\ x1.c.Tree = x2.c.Tree

\* Both engines are finalized over the same message.
SameMessageRead(x1, x2) ==
    /\ x1.h0 # NoDigest
    /\ x2.h0 # NoDigest
    /\ x1.rh.msg = x2.rh.msg

\* C5 as claimed: engines constructed from the same Configuration (same
\* size, key, salt, person and the same tree object, absent or supplied) have
\* the same root hash configuration, and over the same message their outputs
\* agree as far as both were read.
C5_AsClaimed ==
    \A e1, e2 \in DOMAIN engines :
        (/\ engines[e1].c.Size = engines[e2].c.Size
         /\ engines[e1].c.Key = engines[e2].c.Key
         /\ engines[e1].c.Salt = engines[e2].c.Salt
         /\ engines[e1].c.Person = engines[e2].c.Person
         /\ engines[e1].tree = engines[e2].tree)
            => /\ engines[e1].rh.cfg = engines[e2].rh.cfg
               /\ SameMessageRead(engines[e1], engines[e2])
                     => \/ IsPrefix(engines[e1].out, engines[e2].out)
                        \/ IsPrefix(engines[e2].out, engines[e1].out)

\* The number of bytes before segment b of an encoded sequence.
RECURSIVE SegStart(_, _)
SegStart(a, b) == IF b = 1 THEN 0 ELSE SegStart(a, b - 1) + a[b - 1].n

\* C6: with unknown size, what an engine has delivered stays a prefix of
\* what it delivers later, and two engines built from equal configurations
\* (declared size 0) over the same message deliver sequences of which the
\* shorter is a prefix of the longer; the configuration of the block that
\* covers a delivered byte depends only on the byte's position.
C6_UnknownSizePrefix ==
    [][/\ \A e \in DOMAIN engines :
             engines[e].c.Size = 0
                => IsPrefix(engines[e].out, engines'[e].out)
       /\ \A e1, e2 \in DOMAIN engines' :
             (/\ engines'[e1].c = engines'[e2].c
              /\ engines'[e1].c.Size = 0
              /\ SameMessageRead(engines'[e1], engines'[e2]))
                => \/ IsPrefix(engines'[e1].out, engines'[e2].out)
                   \/ IsPrefix(engines'[e2].out, engines'[e1].out)
       /\ \A e \in DOMAIN engines' :
             engines'[e].c.Size = 0
                => \A b \in DOMAIN engines'[e].out :
                      engines'[e].out[b].h[1]
                          = RefBlockConfig(engines'[e],
                                SegStart(engines'[e].out, b) \div 32)]_vars

\* Two engines built from equal unknown-size configurations with a tree:
\* one was read for 1 byte, the other for more than a block.
C6_Witness ==
    \E e1, e2 \in DOMAIN engines :
        /\ e1 # e2
        /\ engines[e1].c = engines[e2].c
        /\ engines[e1].c.Size = 0
        /\ engines[e1].c.Tree # <<>>
        /\ engines[e1].total = 1
        /\ engines[e2].total > 32

\* The declared size is one of the two unknown-length declarations.
DeclaresUnknown(x) == x.c.Size \in {0, 65535}

RootNodeOffset(x) == x.rh.cfg.Tree.NodeOffset

\* C7: two engines that differ in the declared size only have the same root
\* node offset only when both declare unknown length (0 or 65535); in every
\* other case their root hash configurations differ.
C7_LengthBinding ==
    \A e1, e2 \in DOMAIN engines :
        (/\ SameButSize(engines[e1], engines[e2])
         /\ engines[e1].c.Size # engines[e2].c.Size)
            => /\ (RootNodeOffset(engines[e1]) = RootNodeOffset(engines[e2]))
                     => (DeclaresUnknown(engines[e1])
                            /\ DeclaresUnknown(engines[e2]))
               /\ ~(DeclaresUnknown(engines[e1])
                        /\ DeclaresUnknown(engines[e2]))
                     => engines[e1].rh.cfg # engines[e2].rh.cfg

\* Two engines with equal trees of the caller's, one declared 0 and one
\* declared 65535: their root node offsets are equal.
C7_Witness ==
    \E e1, e2 \in DOMAIN engines :
        /\ SameButSize(engines[e1], engines[e2])
        /\ engines[e1].c.Tree # <<>>
        /\ engines[e1].c.Size = 0
        /\ engines[e2].c.Size = 65535
        /\ RootNodeOffset(engines[e1]) = RootNodeOffset(engines[e2])

\* The node offsets of the blocks engine x has delivered bytes of.
LeafNodeOffsets(x) ==
    {x.out[b].h[1].Tree.NodeOffset : b \in DOMAIN x.out}

\* C8: two engines that differ only in their declared sizes, both nonzero,
\* have different root node offsets, and no block of one was hashed with the
\* node offset of a block of the other.
C8_FiniteSizesDisjoint ==
    \A e1, e2 \in DOMAIN engines :
        (/\ SameButSize(engines[e1], engines[e2])
         /\ engines[e1].c.Size # engines[e2].c.Size
         /\ engines[e1].c.Size # 0
         /\ engines[e2].c.Size # 0)
            => /\ RootNodeOffset(engines[e1]) # RootNodeOffset(engines[e2])
               /\ LeafNodeOffsets(engines[e1]) \cap LeafNodeOffsets(engines[e2])
                      = {}
               /\ engines[e1].oc.Tree.NodeOffset
                      # engines[e2].oc.Tree.NodeOffset

\* Two engines of different nonzero sizes, each read into its second block.
C8_Witness ==
    \E e1, e2 \in DOMAIN engines :
        /\ SameButSize(engines[e1], engines[e2])
        /\ engines[e1].c.Size = 33
        /\ engines[e2].c.Size = 65535
        /\ Len(engines[e1].out) = 2
        /\ Len(engines[e2].out) = 2

----------------------------------------------------------------------------
(* Concurrency contract *)

\* The root hash absorbed bytes after the root digest was computed: the
\* digest kept in h0 is not the digest of what was written.
LateWrite ==
    /\ engines # <<>>
    /\ Finalized(X)
    /\ X.h0 # Sum(X.rh.cfg, X.rh.msg)

\* Some byte of some digest was delivered twice.
DeliveredTwice ==
    /\ engines # <<>>
    /\ \E a, b \in DOMAIN X.out :
          /\ a < b
          /\ X.out[a].h = X.out[b].h
          /\ X.out[a].lo < X.out[b].lo + X.out[b].n
          /\ X.out[b].lo < X.out[a].lo + X.out[a].n

\* No thread is inside a call.
Quiescent == \A t \in Threads : th[t].pc = "idle"

\* Between calls, remaining + delivered is not the effective length.
CountBroken ==
    /\ engines # <<>>
    /\ Quiescent
    /\ X.left + X.total # EffectiveLength(X.c.Size)

\* C9: when every call on the shared engine is made under the callers' mutex,
\* no write is absorbed after the root digest was computed, no buffer byte is
\* delivered twice, remaining + delivered stays the effective length between
\* calls, and no index runs out of range.  (Without the mutex, the witness
\* below is an interleaving in which all of these happen.)
C9_SerializedSafe ==
    serialized => ~LateWrite /\ ~DeliveredTwice /\ ~CountBroken /\ ~Crashed

\* C9 witness: two threads with no lock, all calls returned; the root hash
\* accepted a Write although the root digest was already computed, a buffer
\* byte was delivered twice, and remaining + delivered is no longer the
\* effective length.
C9_Witness ==
    /\ ~serialized
    /\ LateWrite
    /\ DeliveredTwice
    /\ CountBroken

----------------------------------------------------------------------------
(* Frame effects of Write and NewXOF *)

\* C11: a Write call on an engine on which no Read call has been made
\* never fails: it returns len(p) and no error, the root hash's input grows by
\* exactly the bytes of p, appended, and nothing else of the engine (root
\* digest, buffer, position, remaining count, block configuration) changes.
C11_WriteBeforeReadAccepted ==
    [][\A e \in DOMAIN engines :
          (WriteStep(e) /\ engines[e].reads = 0)
              => /\ ret'.err = Nil
                 /\ ret'.nn = ret'.n
                 /\ \E p \in Messages :
                       /\ Len(p) = ret'.n
                       /\ engines'[e] =
                              [engines[e] EXCEPT !.rh.msg = @ \o p]]_vars

\* Two non-empty writes were accepted, one after the other, before any read.
C11_Witness ==
    /\ ret.op = "Write" /\ ret.err = Nil /\ ret.nn > 0
    /\ engines[ret.e].reads = 0
    /\ Len(engines[ret.e].rh.msg) = 2

\* C12 as claimed: a NewXOF call, whether it returns an engine or an error,
\* leaves every caller-owned tree-parameter object as it was before the call.
C12_AsClaimed ==
    [][(nnew' = nnew + 1) => (trees' = trees)]_vars

----------------------------------------------------------------------------
(* Cursor invariants *)

\* C13: after every operation each engine has 0 <= remaining <= effective
\* length and remaining + delivered = effective length; no operation
\* increases remaining, a Write leaves it alone, and a Read decreases it by
\* exactly the count it returns.
C13_RemainingCount ==
    [][\A e \in DOMAIN engines' :
          LET x == engines'[e]
              L == EffectiveLength(x.c.Size)
          IN  /\ 0 <= x.left /\ x.left <= L
              /\ x.left + x.total = L
              /\ (e \in DOMAIN engines)
                    => /\ x.left <= engines[e].left
                       /\ ReadStep(e) => (x.left = engines[e].left - ret'.nn)
                       /\ WriteStep(e) => (x.left = engines[e].left)]_vars

\* A Read delivered bytes and left some of the effective length undelivered;
\* it was not the engine's first Read.
C13_Witness ==
    /\ ret.op = "Read" /\ ret.nn > 0
    /\ engines[ret.e].reads >= 2
    /\ engines[ret.e].left > 0
    /\ engines[ret.e].total > ret.nn

\* C14: after every operation 0 <= bufferPosition <= 32; it is 32 on a
\* newly constructed engine; every delivered byte comes from a buffer index
\* below 32; a Read that serves a byte when bufferPosition is 32 first
\* generates a block (from the block configuration then current, whose node
\* offset it consumes) and serves that block's byte 0; and within a Read a
\* new block is started exactly when index 31 of the previous one was served.
C14_BufferCursor ==
    [][\A e \in DOMAIN engines' :
          LET x == engines'[e]
          IN  /\ 0 <= x.px /\ x.px <= 32
              /\ (e \notin DOMAIN engines) => (x.px = 32)
              /\ \A b \in DOMAIN x.out :
                    x.out[b].lo >= 0 /\ x.out[b].lo + x.out[b].n <= 32
              /\ (e \in DOMAIN engines /\ ReadStep(e))
                    => /\ (engines[e].px = 32 /\ ret'.nn > 0)
                            => /\ ret'.p[1].lo = 0
                               /\ ret'.p[1].h[1] = LastBlockSize(engines[e])
                               /\ x.oc.Tree.NodeOffset
                                      # engines[e].oc.Tree.NodeOffset
                       /\ (engines[e].px < 32 /\ ret'.nn > 0)
                            => /\ ret'.p[1].lo = engines[e].px
                               /\ ret'.p[1].h = engines[e].x[1].h
                       /\ \A b \in 2 .. Len(ret'.p) :
                             /\ ret'.p[b].lo = 0
                             /\ ret'.p[b - 1].lo + ret'.p[b - 1].n = 32
                       /\ (ret'.nn > 0)
                            => x.px = ret'.p[Len(ret'.p)].lo
                                          + ret'.p[Len(ret'.p)].n]_vars

\* A Read made when the first block had been served to its last byte
\* delivered byte 0 of a second block.
C14_Witness ==
    /\ ret.op = "Read" /\ ret.nn > 0 /\ ret.p[1].lo = 0
    /\ engines[ret.e].reads >= 2
    /\ engines[ret.e].total - ret.nn = 32

----------------------------------------------------------------------------
(* Blocks *)

\* The number of times engine x advanced its block node offset, which it does
\* once for every block it generates: the low 32 bits of the offset.
BlocksGenerated(x) ==
    x.oc.Tree.NodeOffset[3] * 65536 + x.oc.Tree.NodeOffset[4]

\* The number of blocks that cover d bytes.
BlocksFor(d) == (d + 31) \div 32

\* C15: with effective length L, the blocks generated so far are exactly
\* those that cover the bytes delivered so far (ceil(L/32) of them once all
\* is read, none once nothing remains); block b is generated with digest
\* size 32 when at least 32 bytes remained at its refill and with the
\* remaining count otherwise, so only the last block of the output is
\* truncated, and no block has size 0.
C15_FinalBlockTruncation ==
    \A e \in DOMAIN engines :
        LET x == engines[e]
            L == EffectiveLength(x.c.Size)
        IN  /\ BlocksGenerated(x) = BlocksFor(x.total)
            /\ Len(x.out) = BlocksGenerated(x)
            /\ (x.left = 0) => (BlocksGenerated(x) = BlocksFor(L))
            /\ \A b \in DOMAIN x.out :
                  LET r == L - 32 * (b - 1)
                  IN  /\ x.out[b].h[1].Size = (IF r >= 32 THEN 32 ELSE r)
                      /\ x.out[b].h[1].Size >= 1
                      /\ (x.out[b].h[1].Size < 32) => (b = BlocksFor(L))

\* An engine of declared size 33 was read to its end in two or more calls:
\* a full block and a last block of one byte.
C15_Witness ==
    \E e \in DOMAIN engines :
        /\ engines[e].c.Size = 33
        /\ engines[e].left = 0
        /\ engines[e].reads >= 2
        /\ Len(engines[e].out) = 2

\* C16: with effective length L, the k-th generated block (k = 0, 1, ...)
\* is hashed with node offset (L << 32) + k, so no two blocks of an engine
\* share a node offset; after every operation the block configuration's node
\* offset is (L << 32) + the number of blocks generated so far, which is at
\* most 2048, so bits 32 and above always hold L.
C16_BlockNodeOffsets ==
    \A e \in DOMAIN engines :
        LET x == engines[e]
            L == EffectiveLength(x.c.Size)
            g == BlocksFor(x.total)
        IN  /\ g <= 2048
            /\ x.oc.Tree.NodeOffset = <<0, L, 0, g>>
            /\ \A b \in DOMAIN x.out :
                  x.out[b].h[1].Tree.NodeOffset = <<0, L, 0, b - 1>>

\* All 2048 blocks of an engine of unknown size were generated.
C16_Witness ==
    \E e \in DOMAIN engines :
        /\ engines[e].c.Size = 0
        /\ engines[e].left = 0
        /\ engines[e].oc.Tree.NodeOffset = <<0, 65535, 0, 2048>>

----------------------------------------------------------------------------
(* The exhausted engine *)

\* C17: once nothing remains, nothing remains ever after; a Read call
\* returns zero bytes and changes nothing of the engine (no block is
\* generated: buffer, position, remaining count, block configuration, root
\* hash and root digest stay as they were), and a Write call is rejected with
\* the state error and changes nothing either.
C17_ExhaustedInert ==
    [][\A e \in DOMAIN engines :
          (engines[e].left = 0)
              => /\ engines'[e].left = 0
                 /\ ReadStep(e)
                       => /\ ret'.nn = 0
                          /\ ret'.p = <<>>
                          /\ engines'[e] = [engines[e] EXCEPT !.reads = @ + 1]
                 /\ WriteStep(e)
                       => /\ ret'.err = StateError
                          /\ ret'.nn = 0
                          /\ engines'[e] = engines[e]]_vars

\* An engine of declared size 33 was read to its end, and the Read made
\* after that, with a non-empty buffer, returned end-of-stream.
C17_Witness ==
    /\ ret.op = "Read" /\ ret.n > 0 /\ ret.nn = 0 /\ ret.err = "EOF"
    /\ engines[ret.e].c.Size = 33
    /\ engines[ret.e].total = 33

----------------------------------------------------------------------------
(* Errors of the primitive *)

PrimitiveError == "blake2s: config"

\* C18: a NewXOF whose root hash the primitive refuses returns the
\* primitive's error and no engine, and an engine is only returned with a
\* root configuration the primitive accepts.  A Read returns the primitive's
\* error exactly when it needs a block the primitive refuses: it then returns
\* the count of the bytes that precede that block, all delivered from earlier
\* blocks; bufferPosition stays 32, remaining + delivered is still the
\* effective length, and the block node offset is still that of the refused
\* block.
C18_PrimitiveErrors ==
    [][/\ (nnew' = nnew + 1)
            => /\ (ret'.err # Nil)
                     => /\ ret'.err = PrimitiveError
                        /\ ret'.e = 0
                        /\ engines' = engines
               /\ (ret'.err = Nil)
                     => /\ Len(engines') = Len(engines) + 1
                        /\ ~blake2sNewErr(engines'[ret'.e].rh.cfg)
       /\ \A e \in DOMAIN engines :
             ReadStep(e)
                => LET x == engines[e]
                       y == engines'[e]
                       L == EffectiveLength(x.c.Size)
                       want == Min(ret'.n, x.left)
                       refused ==
                           {k \in reject :
                               32 * k >= x.total /\ 32 * k < x.total + want}
                   IN  /\ (ret'.err = PrimitiveError) <=> (refused # {})
                       /\ (ret'.err = PrimitiveError)
                             => /\ \A k \in refused :
                                       ret'.nn = 32 * k - x.total
                                /\ ret'.nn < ret'.n
                                /\ y.total = x.total + ret'.nn
                                /\ y.out = RefStream(y, y.total)
                                /\ y.px = 32
                                /\ y.left = x.left - ret'.nn
                                /\ y.left + y.total = L
                                /\ y.oc.Tree.NodeOffset
                                       = <<0, L, 0, BlocksFor(y.total)>>
                                /\ blake2sNewErr(y.oc)]_vars

\* A Read that asked for 33 bytes delivered the 32 bytes of the first block
\* and returned the error of the primitive, which refused the second block.
C18_Witness ==
    /\ ret.op = "Read" /\ ret.err = PrimitiveError
    /\ ret.n = 33 /\ ret.nn = 32
    /\ engines[ret.e].left > 0

----------------------------------------------------------------------------
(* The buffer *)

\* C19: every byte a Read delivers is a byte of a digest, taken from an
\* index below that digest's size, and that digest is the block most recently
\* generated when the byte is delivered: bytes continuing the buffer come
\* from the block the buffer held at the call, every further block delivered
\* is the next one generated, and the last bytes delivered come from the
\* block the buffer holds afterwards.  So what a truncated last block leaves
\* at the indices from its size on is never delivered.
C19_NoStaleBytes ==
    [][\A e \in DOMAIN engines :
          (ReadStep(e) /\ ret'.nn > 0)
              => LET p == ret'.p
                 IN  /\ \A b \in DOMAIN p :
                           /\ p[b].h # NoDigest
                           /\ p[b].lo + p[b].n <= DigestSize(p[b].h[1])
                     /\ (p[1].lo > 0) => (p[1].h = engines[e].x[1].h)
                     /\ (p[1].lo = 0)
                           => (p[1].h[1].Tree.NodeOffset
                                   = engines[e].oc.Tree.NodeOffset)
                     /\ \A b \in 2 .. Len(p) :
                           p[b].h[1].Tree.NodeOffset
                               = U64Add(p[b - 1].h[1].Tree.NodeOffset, U64One)
                     /\ p[Len(p)].h = engines'[e].x[1].h]_vars

\* An engine of declared size 33 delivered its last block of one byte; the
\* buffer still holds bytes of the first block behind it, and a Read made
\* after that delivered nothing.
C19_Witness ==
    /\ ret.op = "Read" /\ ret.n > 0 /\ ret.nn = 0
    /\ engines[ret.e].c.Size = 33
    /\ engines[ret.e].left = 0
    /\ engines[ret.e].x[2].h # NoDigest
    /\ engines[ret.e].x[2].h # engines[ret.e].x[1].h

----------------------------------------------------------------------------
(* The output configuration at construction *)

============================================================================
